---- MODULE Spec2Model ----
(***************************************************************************)
(* Model of daemon.go (tadvi/reload): main() establishes the watch set,    *)
(* compiles the fallback pattern, puts one signal in the startRun channel  *)
(* and launches the runner goroutine; the dispatch loop then filters       *)
(* change events into the channel while runner() kills, reaps and          *)
(* respawns the managed command once per signal received.                  *)
(*                                                                         *)
(* Strings are sequences of one-character strings, so that base names,     *)
(* glob matching and suffix matching are computed, not assumed.            *)
(***************************************************************************)
EXTENDS Naturals, Integers, Sequences, FiniteSets, TLC

VARIABLES
    cfg,            \* the parsed command line (flags and argument), fixed after Init
    mainPc,         \* position of main()
    walkTodo,       \* directories filepath.Walk has still to visit, in visiting order
    watched,        \* directories handed successfully to watcher.Watch
    ev,             \* Name of the event the dispatch loop received last
    werr,           \* the error the dispatch loop received last, "none" before
    queue,          \* number of signals buffered in the startRun channel
    accepted,       \* signals sent on startRun by the dispatch loop
    received,       \* signals received from startRun by runner
    runnerPc,       \* position of the runner goroutine
    currentProcess, \* runner's currentProcess: index into procs, 0 for nil
    procs,          \* every child process started so far, in start order
    oserr,          \* the process operation of runner that returned an error
    exitReason,     \* why the daemon process ended, "none" while it runs
    exitCode        \* its exit status, -1 while it runs

vars == <<cfg, mainPc, walkTodo, watched, ev, werr, queue, accepted, received,
          runnerPc, currentProcess, procs, oserr, exitReason, exitCode>>

-----------------------------------------------------------------------------
(* Bounds of the model *)

\* events accepted by the dispatch loop in one run
MaxAccepted == 22

\* events accepted in one run of the specifications of a short burst
MaxBurst == 3

-----------------------------------------------------------------------------
(* Program constants *)

\* startRun := make(chan struct{}, 20)
ChanCap == 20

-----------------------------------------------------------------------------
(* Strings and paths *)

Sep == "/"

RECURSIVE LastSep(_)
\* index of the last separator of s, 0 when there is none
LastSep(s) ==
    IF s = <<>> THEN 0
    ELSE IF s[Len(s)] = Sep THEN Len(s)
    ELSE LastSep(SubSeq(s, 1, Len(s) - 1))

RECURSIVE StripTrailingSep(_)
StripTrailingSep(s) ==
    IF s # <<>> /\ s[Len(s)] = Sep
    THEN StripTrailingSep(SubSeq(s, 1, Len(s) - 1))
    ELSE s

\* filepath.Base: the last element of the path; "." for the empty path,
\* "/" for a path of separators only
Base(path) ==
    IF path = <<>> THEN <<".">>
    ELSE LET p == StripTrailingSep(path) IN
         IF p = <<>> THEN <<Sep>>
         ELSE SubSeq(p, LastSep(p) + 1, Len(p))

\* the directory an event's file lies in (the watch that reports it)
DirOf(path) ==
    IF LastSep(path) = 0 THEN <<>> ELSE SubSeq(path, 1, LastSep(path) - 1)

HasSuffix(s, suf) ==
    /\ Len(suf) <= Len(s)
    /\ SubSeq(s, Len(s) - Len(suf) + 1, Len(s)) = suf

RECURSIVE ReplaceDotSlash(_)
\* strings.Replace(s, "./", "", -1)
ReplaceDotSlash(s) ==
    IF Len(s) < 2 THEN s
    ELSE IF s[1] = "." /\ s[2] = Sep THEN ReplaceDotSlash(SubSeq(s, 3, Len(s)))
    ELSE <<s[1]>> \o ReplaceDotSlash(Tail(s))

-----------------------------------------------------------------------------
(* Globs: filepath.Match and globList.Matches *)

\* A pattern is a sequence of "*", "?", "[" and literal characters.  Of the
\* bracket classes only the unterminated "[" is modelled: the malformed
\* pattern, for which filepath.Match returns ErrBadPattern.
Malformed(pat) == \E i \in 1..Len(pat) : pat[i] = "["

RECURSIVE GlobMatch(_, _)
\* the shell match of a well-formed pattern: "*" is any run of
\* non-separators, "?" one non-separator
GlobMatch(pat, name) ==
    IF pat = <<>> THEN name = <<>>
    ELSE IF Head(pat) = "*"
         THEN \/ GlobMatch(Tail(pat), name)
              \/ /\ name # <<>>
                 /\ Head(name) # Sep
                 /\ GlobMatch(pat, Tail(name))
    ELSE IF Head(pat) = "?"
         THEN /\ name # <<>>
              /\ Head(name) # Sep
              /\ GlobMatch(Tail(pat), Tail(name))
    ELSE /\ name # <<>>
         /\ Head(name) = Head(pat)
         /\ GlobMatch(Tail(pat), Tail(name))

\* filepath.Match(v, value): (matched, err).  Match scans the whole pattern
\* also after a mismatch, so a malformed pattern is reported whatever the name.
filepathMatch(pat, name) ==
    IF Malformed(pat) THEN [match |-> FALSE, err |-> TRUE]
    ELSE [match |-> GlobMatch(pat, name), err |-> FALSE]

RECURSIVE Matches(_, _)
\* globList.Matches: the patterns are tried in order; the first error is
\* fatal ("fatal"), the first match ends the loop ("true"), else "false"
Matches(g, value) ==
    IF g = <<>> THEN "false"
    ELSE LET r == filepathMatch(Head(g), value) IN
         IF r.err THEN "fatal"
         ELSE IF r.match THEN "true"
         ELSE Matches(Tail(g), value)

-----------------------------------------------------------------------------
(* The fallback regular expression *)

\* -pattern is modelled as [ok, exts]: a well-formed pattern is an
\* alternation of .+\.<ext>, like FilePattern; ok = FALSE is a pattern
\* regexp.MustCompile panics on.
\* fullPattern is (cmdName|pattern)$ with cmdName the command with every
\* "./" removed: a file matches when it ends with cmdName, or with
\* ".<ext>" after at least one more character.
cmdName(c) == ReplaceDotSlash(c.command)

matchesPattern(c, file) ==
    \/ HasSuffix(file, cmdName(c))
    \/ \E e \in c.pattern.exts :
          /\ HasSuffix(file, <<".">> \o e)
          /\ Len(file) > Len(e) + 1

-----------------------------------------------------------------------------
(* The environment: the directory tree, the files that change, the flags *)

Root == <<"p">>
DirS == <<"p", "/", "s">>
DirT == <<"p", "/", "t">>
DirTD == <<"p", "/", "t", "/", "d">>

\* the subdirectories of d in the lexical order filepath.Walk visits them
SubDirs(d) ==
    IF d = Root THEN <<DirS, DirT>>
    ELSE IF d = DirT THEN <<DirTD>>
    ELSE <<>>

\* the names events can carry; <<>> is the event with an empty Name
FileNames == {
    <<>>,
    <<"p", "/", "a", ".", "j">>,
    <<"p", "/", "s", "/", "b", ".", "l">>,
    <<"p", "/", "s", "/", "c">>,
    <<"p", "/", "s", "/", "m">>,
    <<"p", "/", "t", "/", "d", "/", "a", ".", "j">> }

\* ev before the dispatch loop has received any event
NoEvent == <<"-">>

\* the errors the watcher can report: the interrupted system call, another
\* *os.SyscallError, an error of another type
WatcherErrors == {"EINTR", "syscall", "other"}

DefaultConfig ==
    [nargs         |-> 1,
     command       |-> <<".", "/", "m">>,
     dir           |-> Root,
     recursive     |-> TRUE,
     pattern       |-> [ok |-> TRUE, exts |-> {<<"j">>}],
     excludedDirs  |-> << <<"t">> >>,
     excludedFiles |-> << <<"a", "*">> >>,
     includedFiles |-> << <<"*", ".", "l">>, <<"a", ".", "?">> >>]

Configs == {
    DefaultConfig,
    \* the root directory itself matches -exclude-dir
    [DefaultConfig EXCEPT !.excludedDirs = << <<"p">> >>],
    [DefaultConfig EXCEPT !.excludedDirs = << <<"p">> >>, !.recursive = FALSE,
                          !.excludedFiles = <<>>, !.includedFiles = <<>>],
    \* malformed globs
    [DefaultConfig EXCEPT !.excludedDirs = << <<"[">> >>],
    [DefaultConfig EXCEPT !.excludedDirs = << <<"[">> >>, !.recursive = FALSE,
                          !.includedFiles = << <<"[">> >>],
    [DefaultConfig EXCEPT !.excludedDirs = <<>>,
                          !.excludedFiles = << <<"a", "*">>, <<"[">> >>],
    \* malformed -pattern
    [DefaultConfig EXCEPT !.pattern = [ok |-> FALSE, exts |-> {}]],
    \* missing command, empty -dir
    [DefaultConfig EXCEPT !.nargs = 0],
    [DefaultConfig EXCEPT !.dir = <<>>] }

-----------------------------------------------------------------------------
(* Processes *)

\* a child: alive until it exits or is killed; killed once Kill returned nil
\* for it; reaped once Wait returned nil for it
NewProc == [alive |-> TRUE, killed |-> FALSE, reaped |-> FALSE]

Running == exitReason = "none"

\* logger.Fatal, os.Exit, panic: the daemon process ends at once, and
\* nothing of it runs any more
Exit(reason, code) ==
    /\ exitReason' = reason
    /\ exitCode' = code

Fatal(reason) == Exit(reason, 1)

NoExit == UNCHANGED <<exitReason, exitCode>>

mainVars == <<cfg, mainPc, walkTodo, watched, ev, werr, accepted>>
runnerVars == <<received, runnerPc, currentProcess, procs, oserr>>

-----------------------------------------------------------------------------
Init ==
    /\ cfg \in Configs
    /\ mainPc = "args"
    /\ walkTodo = <<>>
    /\ watched = {}
    /\ ev = NoEvent
    /\ werr = "none"
    /\ queue = 0
    /\ accepted = 0
    /\ received = 0
    /\ runnerPc = "off"
    /\ currentProcess = 0
    /\ procs = <<>>
    /\ oserr = "none"
    /\ exitReason = "none"
    /\ exitCode = -1

-----------------------------------------------------------------------------
(* main(): startup *)

\* the argument checks and fsnotify.NewWatcher
MainArgs ==
    /\ Running /\ mainPc = "args"
    /\ IF cfg.nargs < 1 \/ cfg.dir = <<>>
       THEN /\ Exit("usage", 1)
            /\ UNCHANGED <<mainPc, walkTodo>>
       ELSE \E newWatcherErr \in BOOLEAN :
              IF newWatcherErr
              THEN /\ Fatal("newwatcher")
                   /\ UNCHANGED <<mainPc, walkTodo>>
              ELSE /\ NoExit
                   /\ IF cfg.recursive
                      THEN mainPc' = "walk" /\ walkTodo' = <<cfg.dir>>
                      ELSE mainPc' = "watch" /\ walkTodo' = walkTodo
    /\ UNCHANGED <<cfg, werr, watched, ev, accepted, queue>>
    /\ UNCHANGED runnerVars

\* MainWalk with a Watch error logged and the walk continued
MainWalkSkipErr ==
    /\ Running /\ mainPc = "walk" /\ walkTodo # <<>>
    /\ LET d == Head(walkTodo)
           excluded == Matches(cfg.excludedDirs, Base(d))
       IN \E walkErr \in BOOLEAN, watchErr \in BOOLEAN :
            IF walkErr
            THEN /\ Fatal("walk")
                 /\ UNCHANGED <<mainPc, walkTodo, watched>>
            ELSE IF excluded = "fatal"
            THEN /\ Fatal("badpattern")
                 /\ UNCHANGED <<mainPc, walkTodo, watched>>
            ELSE IF excluded = "true"
            THEN /\ NoExit
                 /\ walkTodo' = Tail(walkTodo)
                 /\ watched' = watched
                 /\ mainPc' = IF Tail(walkTodo) = <<>> THEN "compile" ELSE "walk"
            ELSE IF watchErr
            THEN /\ NoExit
                 /\ watched' = watched
                 /\ walkTodo' = SubDirs(d) \o Tail(walkTodo)
                 /\ mainPc' = IF SubDirs(d) \o Tail(walkTodo) = <<>>
                              THEN "compile" ELSE "walk"
            ELSE /\ NoExit
                 /\ watched' = watched \cup {d}
                 /\ walkTodo' = SubDirs(d) \o Tail(walkTodo)
                 /\ mainPc' = IF SubDirs(d) \o Tail(walkTodo) = <<>>
                              THEN "compile" ELSE "walk"
    /\ UNCHANGED <<cfg, werr, ev, accepted, queue>>
    /\ UNCHANGED runnerVars

\* one call of the walk function: on the next directory of the walk.
\* An error of the walk itself (Lstat, reading the directory) is returned
\* as it is; an excluded directory is skipped with all below it; every
\* other directory is watched, and a Watch error ends the walk.
MainWalk ==
    /\ Running /\ mainPc = "walk" /\ walkTodo # <<>>
    /\ LET d == Head(walkTodo)
           excluded == Matches(cfg.excludedDirs, Base(d))
       IN \E walkErr \in BOOLEAN, watchErr \in BOOLEAN :
            IF walkErr
            THEN /\ Fatal("walk")
                 /\ UNCHANGED <<mainPc, walkTodo, watched>>
            ELSE IF excluded = "fatal"
            THEN /\ Fatal("badpattern")
                 /\ UNCHANGED <<mainPc, walkTodo, watched>>
            ELSE IF excluded = "true"
            THEN /\ NoExit
                 /\ walkTodo' = Tail(walkTodo)
                 /\ watched' = watched
                 /\ mainPc' = IF Tail(walkTodo) = <<>> THEN "compile" ELSE "walk"
            ELSE IF watchErr
            THEN /\ Fatal("walk")
                 /\ UNCHANGED <<mainPc, walkTodo, watched>>
            ELSE /\ NoExit
                 /\ watched' = watched \cup {d}
                 /\ walkTodo' = SubDirs(d) \o Tail(walkTodo)
                 /\ mainPc' = IF SubDirs(d) \o Tail(walkTodo) = <<>>
                              THEN "compile" ELSE "walk"
    /\ UNCHANGED <<cfg, werr, ev, accepted, queue>>
    /\ UNCHANGED runnerVars

\* -recursive=false: the directory is watched as it is
MainWatch ==
    /\ Running /\ mainPc = "watch"
    /\ \E watchErr \in BOOLEAN :
         IF watchErr
         THEN /\ Fatal("watch")
              /\ UNCHANGED <<mainPc, watched>>
         ELSE /\ NoExit
              /\ watched' = watched \cup {cfg.dir}
              /\ mainPc' = "compile"
    /\ UNCHANGED <<cfg, werr, walkTodo, ev, accepted, queue>>
    /\ UNCHANGED runnerVars

\* MainCompile with regexp.Compile and its error dropped
MainCompileIgnoreErr ==
    /\ Running /\ mainPc = "compile"
    /\ NoExit /\ mainPc' = "launch"
    /\ UNCHANGED <<cfg, werr, walkTodo, watched, ev, accepted, queue>>
    /\ UNCHANGED runnerVars

\* regexp.MustCompile(fullPattern) panics on a malformed pattern
MainCompile ==
    /\ Running /\ mainPc = "compile"
    /\ IF cfg.pattern.ok
       THEN NoExit /\ mainPc' = "launch"
       ELSE Exit("regexp", 2) /\ mainPc' = mainPc
    /\ UNCHANGED <<cfg, werr, walkTodo, watched, ev, accepted, queue>>
    /\ UNCHANGED runnerVars

\* MainLaunch without the send that precedes go runner(...)
MainLaunchNoSignal ==
    /\ Running /\ mainPc = "launch"
    /\ queue' = 0
    /\ runnerPc' = "recv"
    /\ mainPc' = "loop"
    /\ NoExit
    /\ UNCHANGED <<cfg, werr, walkTodo, watched, ev, accepted>>
    /\ UNCHANGED <<received, currentProcess, procs, oserr>>

\* the channel is made, one signal is sent on it, runner is started
MainLaunch ==
    /\ Running /\ mainPc = "launch"
    /\ queue' = 1
    /\ runnerPc' = "recv"
    /\ mainPc' = "loop"
    /\ NoExit
    /\ UNCHANGED <<cfg, werr, walkTodo, watched, ev, accepted>>
    /\ UNCHANGED <<received, currentProcess, procs, oserr>>

-----------------------------------------------------------------------------
(* main(): the dispatch loop *)

\* case ev := <-watcher.Event.  The watcher reports files of the watched
\* directories; an event with an empty Name can come at any time.
MainRecvEvent ==
    /\ Running /\ mainPc = "loop"
    /\ accepted < MaxAccepted
    /\ \E name \in FileNames :
         /\ name = <<>> \/ DirOf(name) \in watched
         /\ ev' = name
    /\ mainPc' = "match"
    /\ NoExit
    /\ UNCHANGED <<cfg, werr, walkTodo, watched, accepted, queue>>
    /\ UNCHANGED runnerVars

\* MainMatch with an included file sent before the exclusions are asked
MainMatchIncludeFirst ==
    /\ Running /\ mainPc = "match"
    /\ IF ev = <<>>
       THEN NoExit /\ mainPc' = "loop"
       ELSE LET base == Base(ev)
                included == Matches(cfg.includedFiles, base)
                excluded == Matches(cfg.excludedFiles, base)
            IN IF included = "fatal"
               THEN Fatal("badpattern") /\ mainPc' = mainPc
               ELSE IF included = "true"
               THEN NoExit /\ mainPc' = "send"
               ELSE IF matchesPattern(cfg, ev)
               THEN IF excluded = "fatal"
                    THEN Fatal("badpattern") /\ mainPc' = mainPc
                    ELSE IF excluded = "false"
                    THEN NoExit /\ mainPc' = "send"
                    ELSE NoExit /\ mainPc' = "loop"
               ELSE NoExit /\ mainPc' = "loop"
    /\ UNCHANGED <<cfg, werr, walkTodo, watched, ev, accepted, queue>>
    /\ UNCHANGED runnerVars

\* MainMatch without the test for a candidate: every event that is not
\* excluded is sent
MainMatchNoCandidate ==
    /\ Running /\ mainPc = "match"
    /\ IF ev = <<>>
       THEN NoExit /\ mainPc' = "loop"
       ELSE LET excluded == Matches(cfg.excludedFiles, Base(ev))
            IN IF excluded = "fatal"
               THEN Fatal("badpattern") /\ mainPc' = mainPc
               ELSE IF excluded = "false"
               THEN NoExit /\ mainPc' = "send"
               ELSE NoExit /\ mainPc' = "loop"
    /\ UNCHANGED <<cfg, werr, walkTodo, watched, ev, accepted, queue>>
    /\ UNCHANGED runnerVars

\* MainMatch without the test for an empty Name
MainMatchNoEmptyCheck ==
    /\ Running /\ mainPc = "match"
    /\ LET base == Base(ev)
           included == Matches(cfg.includedFiles, base)
           excluded == Matches(cfg.excludedFiles, base)
       IN IF included = "fatal"
          THEN Fatal("badpattern") /\ mainPc' = mainPc
          ELSE IF included = "true" \/ matchesPattern(cfg, ev)
          THEN IF excluded = "fatal"
               THEN Fatal("badpattern") /\ mainPc' = mainPc
               ELSE IF excluded = "false"
               THEN NoExit /\ mainPc' = "send"
               ELSE NoExit /\ mainPc' = "loop"
          ELSE NoExit /\ mainPc' = "loop"
    /\ UNCHANGED <<cfg, werr, walkTodo, watched, ev, accepted, queue>>
    /\ UNCHANGED runnerVars

\* MainMatch with the test of the exclusions inverted
MainMatchInverted ==
    /\ Running /\ mainPc = "match"
    /\ IF ev = <<>>
       THEN NoExit /\ mainPc' = "loop"
       ELSE LET base == Base(ev)
                included == Matches(cfg.includedFiles, base)
                excluded == Matches(cfg.excludedFiles, base)
            IN IF included = "fatal"
               THEN Fatal("badpattern") /\ mainPc' = mainPc
               ELSE IF included = "true" \/ matchesPattern(cfg, ev)
               THEN IF excluded = "fatal"
                    THEN Fatal("badpattern") /\ mainPc' = mainPc
                    ELSE IF excluded = "true"
                    THEN NoExit /\ mainPc' = "send"
                    ELSE NoExit /\ mainPc' = "loop"
               ELSE NoExit /\ mainPc' = "loop"
    /\ UNCHANGED <<cfg, werr, walkTodo, watched, ev, accepted, queue>>
    /\ UNCHANGED runnerVars

\* whether the event is a candidate, and whether it is excluded
MainMatch ==
    /\ Running /\ mainPc = "match"
    /\ IF ev = <<>>
       THEN NoExit /\ mainPc' = "loop"
       ELSE LET base == Base(ev)
                included == Matches(cfg.includedFiles, base)
                excluded == Matches(cfg.excludedFiles, base)
            IN IF included = "fatal"
               THEN Fatal("badpattern") /\ mainPc' = mainPc
               ELSE IF included = "true" \/ matchesPattern(cfg, ev)
               THEN IF excluded = "fatal"
                    THEN Fatal("badpattern") /\ mainPc' = mainPc
                    ELSE IF excluded = "false"
                    THEN NoExit /\ mainPc' = "send"
                    ELSE NoExit /\ mainPc' = "loop"
               ELSE NoExit /\ mainPc' = "loop"
    /\ UNCHANGED <<cfg, werr, walkTodo, watched, ev, accepted, queue>>
    /\ UNCHANGED runnerVars

\* MainSend as a send that gives up when the channel is full
MainSendNonBlocking ==
    /\ Running /\ mainPc = "send"
    /\ queue' = IF queue < ChanCap THEN queue + 1 ELSE queue
    /\ accepted' = accepted + 1
    /\ mainPc' = "loop"
    /\ NoExit
    /\ UNCHANGED <<cfg, werr, walkTodo, watched, ev>>
    /\ UNCHANGED runnerVars

\* startRun <- struct{}{}: blocks while the channel is full
MainSend ==
    /\ Running /\ mainPc = "send"
    /\ queue < ChanCap
    /\ queue' = queue + 1
    /\ accepted' = accepted + 1
    /\ mainPc' = "loop"
    /\ NoExit
    /\ UNCHANGED <<cfg, werr, walkTodo, watched, ev>>
    /\ UNCHANGED runnerVars

\* case err := <-watcher.Error
MainRecvError ==
    /\ Running /\ mainPc = "loop"
    /\ werr' \in WatcherErrors
    /\ mainPc' = "error"
    /\ NoExit
    /\ UNCHANGED <<cfg, walkTodo, watched, ev, accepted, queue>>
    /\ UNCHANGED runnerVars

\* MainError that kills the current child before logger.Fatal
MainErrorKillsChild ==
    /\ Running /\ mainPc = "error"
    /\ IF werr = "EINTR"
       THEN /\ NoExit
            /\ mainPc' = "loop"
            /\ werr' = werr
            /\ procs' = procs
       ELSE /\ Fatal("watcher")
            /\ UNCHANGED <<mainPc, werr>>
            /\ procs' = [i \in 1..Len(procs) |->
                           [procs[i] EXCEPT !.alive = FALSE,
                                            !.killed = (@ \/ procs[i].alive)]]
    /\ UNCHANGED <<cfg, walkTodo, watched, ev, accepted, queue>>
    /\ UNCHANGED <<received, runnerPc, currentProcess, oserr>>

\* MainError without the test for EINTR
MainErrorAllFatal ==
    /\ Running /\ mainPc = "error"
    /\ Fatal("watcher")
    /\ UNCHANGED <<mainPc, werr>>
    /\ UNCHANGED <<cfg, walkTodo, watched, ev, accepted, queue>>
    /\ UNCHANGED runnerVars

\* the body of the case: EINTR is skipped (continue), anything else is fatal
MainError ==
    /\ Running /\ mainPc = "error"
    /\ IF werr = "EINTR"
       THEN /\ NoExit
            /\ mainPc' = "loop"
            /\ werr' = werr
       ELSE /\ Fatal("watcher")
            /\ UNCHANGED <<mainPc, werr>>
    /\ UNCHANGED <<cfg, walkTodo, watched, ev, accepted, queue>>
    /\ UNCHANGED runnerVars

\* Interrupt with a handler that kills and reaps the child and exits 0
InterruptGraceful ==
    /\ Running
    /\ procs' = IF currentProcess = 0 THEN procs
                ELSE [procs EXCEPT ![currentProcess] =
                        [alive |-> FALSE, killed |-> TRUE, reaped |-> TRUE]]
    /\ Exit("interrupt", 0)
    /\ UNCHANGED <<queue, received, runnerPc, currentProcess, oserr>>
    /\ UNCHANGED mainVars

\* An interrupt sent to the daemon.  daemon.go installs no signal handler,
\* so the process is ended by the signal where it stands: no statement of
\* main or runner runs for it, and the child is not touched.
Interrupt ==
    /\ Running
    /\ Exit("interrupt", 130)
    /\ UNCHANGED <<queue>>
    /\ UNCHANGED mainVars
    /\ UNCHANGED runnerVars

-----------------------------------------------------------------------------
(* runner() and killProcess() *)

\* RunnerRecv with killProcess left out
RunnerRecvNoKill ==
    /\ Running /\ runnerPc = "recv"
    /\ queue > 0
    /\ queue' = queue - 1
    /\ received' = received + 1
    /\ runnerPc' = "start"
    /\ NoExit
    /\ UNCHANGED <<currentProcess, procs, oserr>>
    /\ UNCHANGED mainVars

\* RunnerRecv that empties the channel of the signals pending with the
\* one received
RunnerRecvDrain ==
    /\ Running /\ runnerPc = "recv"
    /\ queue > 0
    /\ queue' = 0
    /\ received' = received + queue
    /\ runnerPc' = IF currentProcess # 0 THEN "kill" ELSE "start"
    /\ NoExit
    /\ UNCHANGED <<currentProcess, procs, oserr>>
    /\ UNCHANGED mainVars

\* <-startRun, then the test of currentProcess
RunnerRecv ==
    /\ Running /\ runnerPc = "recv"
    /\ queue > 0
    /\ queue' = queue - 1
    /\ received' = received + 1
    /\ runnerPc' = IF currentProcess # 0 THEN "kill" ELSE "start"
    /\ NoExit
    /\ UNCHANGED <<currentProcess, procs, oserr>>
    /\ UNCHANGED mainVars

\* RunnerKill that logs a Kill error and goes on to start the command
RunnerKillLenient ==
    /\ Running /\ runnerPc = "kill"
    /\ \E killErr \in BOOLEAN :
         IF killErr
         THEN /\ oserr' = "kill"
              /\ runnerPc' = "start"
              /\ procs' = procs
         ELSE /\ procs' = [procs EXCEPT ![currentProcess].alive = FALSE,
                                        ![currentProcess].killed = TRUE]
              /\ runnerPc' = "wait"
              /\ oserr' = oserr
    /\ NoExit
    /\ UNCHANGED <<queue, received, currentProcess>>
    /\ UNCHANGED mainVars

\* process.Kill(): nil once the signal is delivered, also to a child that
\* has exited and is not reaped yet; an error is fatal
RunnerKill ==
    /\ Running /\ runnerPc = "kill"
    /\ \E killErr \in BOOLEAN :
         IF killErr
         THEN /\ oserr' = "kill"
              /\ Fatal("kill")
              /\ UNCHANGED <<runnerPc, procs>>
         ELSE /\ procs' = [procs EXCEPT ![currentProcess].alive = FALSE,
                                        ![currentProcess].killed = TRUE]
              /\ runnerPc' = "wait"
              /\ NoExit
              /\ oserr' = oserr
    /\ UNCHANGED <<queue, received, currentProcess>>
    /\ UNCHANGED mainVars

\* process.Wait(): nil once the child is reaped; an error is fatal
RunnerWait ==
    /\ Running /\ runnerPc = "wait"
    /\ \E waitErr \in BOOLEAN :
         IF waitErr
         THEN /\ oserr' = "wait"
              /\ Fatal("wait")
              /\ UNCHANGED <<runnerPc, procs>>
         ELSE /\ procs' = [procs EXCEPT ![currentProcess].reaped = TRUE]
              /\ runnerPc' = "start"
              /\ NoExit
              /\ oserr' = oserr
    /\ UNCHANGED <<queue, received, currentProcess>>
    /\ UNCHANGED mainVars

\* RunnerStart that leaves the loop of runner after the start
RunnerStartOnce ==
    /\ Running /\ runnerPc = "start"
    /\ \E startErr \in BOOLEAN :
         IF startErr
         THEN /\ oserr' = "spawn"
              /\ Fatal("spawn")
              /\ UNCHANGED <<runnerPc, procs, currentProcess>>
         ELSE /\ procs' = Append(procs, NewProc)
              /\ currentProcess' = Len(procs) + 1
              /\ runnerPc' = "done"
              /\ NoExit
              /\ oserr' = oserr
    /\ UNCHANGED <<queue, received>>
    /\ UNCHANGED mainVars

\* RunnerStart with a restart counter: no child after the tenth
RunnerStartGuarded ==
    /\ Running /\ runnerPc = "start"
    /\ IF Len(procs) >= 10
       THEN /\ Fatal("runaway")
            /\ UNCHANGED <<runnerPc, procs, currentProcess, oserr>>
       ELSE \E startErr \in BOOLEAN :
              IF startErr
              THEN /\ oserr' = "spawn"
                   /\ Fatal("spawn")
                   /\ UNCHANGED <<runnerPc, procs, currentProcess>>
              ELSE /\ procs' = Append(procs, NewProc)
                   /\ currentProcess' = Len(procs) + 1
                   /\ runnerPc' = "recv"
                   /\ NoExit
                   /\ oserr' = oserr
    /\ UNCHANGED <<queue, received>>
    /\ UNCHANGED mainVars

\* RunnerStart that logs the error and waits for the next signal
RunnerStartRetry ==
    /\ Running /\ runnerPc = "start"
    /\ \E startErr \in BOOLEAN :
         IF startErr
         THEN /\ oserr' = "spawn"
              /\ runnerPc' = "recv"
              /\ UNCHANGED <<procs, currentProcess>>
         ELSE /\ procs' = Append(procs, NewProc)
              /\ currentProcess' = Len(procs) + 1
              /\ runnerPc' = "recv"
              /\ oserr' = oserr
    /\ NoExit
    /\ UNCHANGED <<queue, received>>
    /\ UNCHANGED mainVars

\* startCommand(command) and the assignment of currentProcess; an error
\* is fatal
RunnerStart ==
    /\ Running /\ runnerPc = "start"
    /\ \E startErr \in BOOLEAN :
         IF startErr
         THEN /\ oserr' = "spawn"
              /\ Fatal("spawn")
              /\ UNCHANGED <<runnerPc, procs, currentProcess>>
         ELSE /\ procs' = Append(procs, NewProc)
              /\ currentProcess' = Len(procs) + 1
              /\ runnerPc' = "recv"
              /\ NoExit
              /\ oserr' = oserr
    /\ UNCHANGED <<queue, received>>
    /\ UNCHANGED mainVars

\* the managed command ends by itself; nobody but runner reaps it
ChildExits ==
    /\ \E i \in 1..Len(procs) :
         /\ procs[i].alive
         /\ procs' = [procs EXCEPT ![i].alive = FALSE]
    /\ UNCHANGED <<queue, received, runnerPc, currentProcess, oserr>>
    /\ UNCHANGED mainVars
    /\ NoExit

-----------------------------------------------------------------------------
Next ==
    \/ MainArgs
    \/ MainWalk
    \/ MainWatch
    \/ MainCompile
    \/ MainLaunch
    \/ MainRecvEvent
    \/ MainMatch
    \/ MainSend
    \/ MainRecvError
    \/ MainError
    \/ Interrupt
    \/ RunnerRecv
    \/ RunnerKill
    \/ RunnerWait
    \/ RunnerStart
    \/ ChildExits

Spec == Init /\ [][Next]_vars

\* the steps main takes by itself, and those of runner
MainStep ==
    \/ MainArgs \/ MainWalk \/ MainWatch \/ MainCompile \/ MainLaunch
    \/ MainMatch \/ MainSend \/ MainError

RunnerStep == RunnerRecv \/ RunnerKill \/ RunnerWait \/ RunnerStart

\* The Go scheduler runs every goroutine that can take a step: main and
\* runner go on whenever they are not blocked.  Nothing is assumed of the
\* events, errors and signals that arrive, nor of the child.
FairSpec ==
    /\ Spec
    /\ WF_vars(MainStep)
    /\ WF_vars(RunnerStep)

\* A run in which at most MaxBurst events are accepted: the steps are
\* those of Next, the watcher delivering its events only so long.
BurstRecvEvent == accepted < MaxBurst /\ MainRecvEvent

BurstNext ==
    \/ MainArgs
    \/ MainWalk
    \/ MainWatch
    \/ MainCompile
    \/ MainLaunch
    \/ BurstRecvEvent
    \/ MainMatch
    \/ MainSend
    \/ MainRecvError
    \/ MainError
    \/ Interrupt
    \/ RunnerRecv
    \/ RunnerKill
    \/ RunnerWait
    \/ RunnerStart
    \/ ChildExits

BurstFairSpec ==
    /\ Init
    /\ [][BurstNext]_vars
    /\ WF_vars(MainStep)
    /\ WF_vars(RunnerStep)

\* The runs of two of the configurations, one with and one without
\* -recursive, in which every event is a change of the one file p/s/b.l:
\* enough of them are accepted to fill the channel.
QueueConfigs == {
    DefaultConfig,
    [DefaultConfig EXCEPT !.excludedDirs = << <<"[">> >>, !.recursive = FALSE,
                          !.includedFiles = << <<"[">> >>] }

QueueRecvEvent == MainRecvEvent /\ ev' = <<"p", "/", "s", "/", "b", ".", "l">>

QueueNext ==
    \/ MainArgs
    \/ MainWalk
    \/ MainWatch
    \/ MainCompile
    \/ MainLaunch
    \/ QueueRecvEvent
    \/ MainMatch
    \/ MainSend
    \/ MainRecvError
    \/ MainError
    \/ Interrupt
    \/ RunnerRecv
    \/ RunnerKill
    \/ RunnerWait
    \/ RunnerStart
    \/ ChildExits

QueueInit == Init /\ cfg \in QueueConfigs

QueueFairSpec ==
    /\ QueueInit
    /\ [][QueueNext]_vars
    /\ WF_vars(MainStep)
    /\ WF_vars(RunnerStep)

-----------------------------------------------------------------------------
(* Properties *)

Live == {i \in 1..Len(procs) : procs[i].alive}

Gone(i) == ~procs[i].alive /\ procs[i].killed /\ procs[i].reaped

\* C1: at most one managed child is live, and every child but the one
\* started last has been killed (Kill returned nil) and reaped (Wait
\* returned nil): each was gone before its successor was started.
C1_SerializedRestarts ==
    /\ Cardinality(Live) <= 1
    /\ \A i \in 1..(Len(procs) - 1) : Gone(i)
    /\ currentProcess = Len(procs)

\* C1 witness: two restarts have happened with further signals pending,
\* and the third child is live
C1_Witness ==
    /\ Len(procs) = 3
    /\ procs[3].alive
    /\ queue >= 1
    /\ mainPc = "send"

\* the iteration of runner that has received its signal and not yet
\* started its command
InFlight == IF runnerPc \in {"kill", "wait", "start"} THEN 1 ELSE 0

ExitReasons ==
    {"none", "usage", "newwatcher", "walk", "watch", "regexp", "badpattern",
     "watcher", "interrupt", "kill", "wait", "spawn"}

ExcludedFile(name) == Matches(cfg.excludedFiles, Base(name)) = "true"

\* C4: an event whose base name matches an excluded-file glob is never
\* sent on the channel, whatever else it matches: the dispatch loop goes
\* from matching it back to the loop, and a send is only ever made for an
\* event that no excluded-file glob matches.
C4_ExclusionPrecedence ==
    /\ [](mainPc = "send" => ~ExcludedFile(ev))
    /\ [][(mainPc = "match" /\ ExcludedFile(ev))
            => (mainPc' \in {"match", "loop"} /\ queue' <= queue
                /\ accepted' = accepted)]_vars
    /\ [][accepted' # accepted
            => (mainPc = "send" /\ ev # <<>> /\ ~ExcludedFile(ev)
                /\ queue' = queue + 1)]_vars

\* C4 witness: an event matched by an included-file glob, by the fallback
\* pattern and by an excluded-file glob has been dispatched and dropped
C4_Witness ==
    /\ Running
    /\ mainPc = "loop"
    /\ ev # <<>>
    /\ Matches(cfg.includedFiles, Base(ev)) = "true"
    /\ matchesPattern(cfg, ev)
    /\ ExcludedFile(ev)
    /\ accepted = 0
    /\ Len(procs) = 1 /\ received = 1

C6_InitialStart ==
    /\ [][(runnerPc = "off" /\ runnerPc' # "off")
            => (queue' = 1 /\ accepted' = 0 /\ runnerPc' = "recv")]_vars
    /\ []((runnerPc = "recv" /\ received = 0) => queue >= 1)
    /\ (mainPc = "loop" /\ Running) ~> (Len(procs) >= 1 \/ ~Running)

\* C6 witness: the first child is live and no event was ever received
C6_Witness ==
    /\ Running
    /\ mainPc = "loop"
    /\ ev = NoEvent
    /\ accepted = 0
    /\ received = 1
    /\ Len(procs) = 1
    /\ procs[1].alive

\* d and the directories above it
AncestorsOrSelf(d) ==
    {SubSeq(d, 1, k) : k \in {j \in 1..Len(d) : j = Len(d) \/ d[j + 1] = Sep}}

ExcludedDir(d) == Matches(cfg.excludedDirs, Base(d)) = "true"

\* C7 as stated: no directory whose base name matches an excluded-directory
\* glob, and none below such a directory, is in the watch set, and no event
\* of such a directory is matched; the root and -recursive=false included
C7_Original ==
    /\ \A d \in watched : \A a \in AncestorsOrSelf(d) : ~ExcludedDir(a)
    /\ (mainPc = "match" /\ ev # <<>>)
          => \A a \in AncestorsOrSelf(DirOf(ev)) : ~ExcludedDir(a)

\* C8: a Kill or Wait error ends the daemon at once; no child is started
\* after it and runner goes no further; and runner is at startCommand with
\* a previous child only when that child has been killed and reaped.
C8_KillWaitFailureFatal ==
    /\ [](oserr \in {"kill", "wait"} => (exitReason = oserr /\ exitCode = 1))
    /\ [][(oserr \in {"kill", "wait"})
            => (Len(procs') = Len(procs) /\ runnerPc' = runnerPc)]_vars
    /\ []((runnerPc = "start" /\ currentProcess # 0) => Gone(currentProcess))

\* C8 witness: Wait failed on the killed child with signals still pending
C8_Witness ==
    /\ oserr = "wait"
    /\ procs[currentProcess].killed
    /\ queue >= 1

\* C9: a startCommand error ends the daemon at once; runner makes no other
\* attempt and receives nothing more, whatever is pending in the channel.
C9_SpawnFailureFatal ==
    /\ [](oserr = "spawn" => (exitReason = "spawn" /\ exitCode = 1))
    /\ [][oserr = "spawn"
            => (runnerPc' = runnerPc /\ Len(procs') = Len(procs)
                /\ received' = received /\ queue' = queue)]_vars

\* C9 witness: a restart failed to start the command with two signals pending
C9_Witness ==
    /\ oserr = "spawn"
    /\ Len(procs) >= 1
    /\ queue >= 2

MalformedGlobs(g) == \E i \in 1..Len(g) : Malformed(g[i])

AnyMalformed ==
    \/ MalformedGlobs(cfg.excludedDirs)
    \/ MalformedGlobs(cfg.excludedFiles)
    \/ MalformedGlobs(cfg.includedFiles)
    \/ ~cfg.pattern.ok

\* C10 as amended: a malformed fallback pattern ends the daemon after the
\* watch set is established and before the first signal is sent, so before
\* any child; a malformed excluded-directory glob ends it at the first
\* directory of the recursive walk, before any watch; a malformed included-
\* or excluded-file glob is found only in the dispatch loop, when an event
\* is matched against it, after runner was launched.
C10_WhereMalformedIsCaught ==
    /\ [](~cfg.pattern.ok => (procs = <<>> /\ runnerPc = "off" /\ queue = 0))
    /\ []((cfg.recursive /\ Matches(cfg.excludedDirs, Base(cfg.dir)) = "fatal")
            => (watched = {} /\ procs = <<>>))
    /\ [](exitReason = "badpattern" => mainPc \in {"walk", "match"})
    /\ []((exitReason = "badpattern" /\ mainPc = "match")
            => (ev # <<>> /\ runnerPc # "off" /\ watched # {}
                /\ (MalformedGlobs(cfg.includedFiles)
                    \/ MalformedGlobs(cfg.excludedFiles))))

\* C10 witness: a malformed glob ended the daemon in the dispatch loop,
\* with a child started before it was found
C10_Witness ==
    /\ exitReason = "badpattern"
    /\ mainPc = "match"
    /\ Len(procs) >= 1

\* C10 as stated: with any pattern malformed no directory is ever watched,
\* no child is ever started and the dispatch loop is never reached
C10_Original ==
    AnyMalformed
        => (watched = {} /\ procs = <<>> /\ mainPc \notin {"loop", "match", "send"})

\* an event the pattern matcher accepts: a non-empty path that is a
\* candidate (an included-file glob matches the base name, or the fallback
\* pattern matches the path) and that no excluded-file glob matches
Accepts(name) ==
    /\ name # <<>>
    /\ \/ Matches(cfg.includedFiles, Base(name)) = "true"
       \/ /\ Matches(cfg.includedFiles, Base(name)) = "false"
          /\ matchesPattern(cfg, name)
    /\ Matches(cfg.excludedFiles, Base(name)) = "false"

\* C11: an accepted event takes the dispatch loop to the send on the
\* channel, and with n children started when it is about to be sent, a
\* further child is started later: the event is followed by a restart,
\* unless the daemon is ended first (a kill, wait or spawn error, a watcher
\* error, a signal).
C11_RelevantChangeRestarts ==
    /\ [][(mainPc = "match" /\ Accepts(ev) /\ mainPc' # mainPc)
            => (mainPc' = "send" /\ exitReason' = "none")]_vars
    /\ [][(mainPc = "send" /\ mainPc' # mainPc)
            => (queue' = queue + 1 /\ accepted' = accepted + 1)]_vars
    /\ \A n \in 0..(MaxBurst + 1) :
          (mainPc = "send" /\ Len(procs) = n /\ Running)
             ~> (Len(procs) > n \/ ~Running)

\* C11 witness: the third accepted event has been followed by the start of
\* the fourth child, with nothing left in the channel
C11_Witness ==
    /\ Running
    /\ accepted = 3
    /\ Len(procs) = 4
    /\ queue = 0
    /\ procs[4].alive

\* an event that is no candidate: no included-file glob matches its base
\* name and the fallback pattern does not match its path
Irrelevant(name) ==
    /\ name # <<>>
    /\ name # NoEvent
    /\ Matches(cfg.includedFiles, Base(name)) # "true"
    /\ ~matchesPattern(cfg, name)

\* C12: an event that is no candidate is never sent: the dispatch loop
\* goes from matching it back to its loop, and that step changes neither the
\* channel nor the counters nor anything of runner and the child.
C12_IrrelevantIgnored ==
    /\ [](mainPc = "send" => ~Irrelevant(ev))
    /\ [][(mainPc = "match" /\ Irrelevant(ev))
            => (mainPc' \in {"match", "loop"} /\ accepted' = accepted
                /\ queue' <= queue)]_vars
    /\ [][(mainPc = "match" /\ Irrelevant(ev) /\ mainPc' = "loop")
            => UNCHANGED <<queue, accepted, received, runnerPc,
                           currentProcess, procs, exitReason>>]_vars

\* C12 witness: an event that is no candidate has been dispatched; the
\* first child is still the current one, live, and the channel is empty
C12_Witness ==
    /\ Running
    /\ mainPc = "loop"
    /\ Irrelevant(ev)
    /\ accepted = 0
    /\ queue = 0
    /\ received = 1
    /\ Len(procs) = 1
    /\ procs[1].alive

\* C13 as stated: there is a delay step between the receipt of a signal, or
\* the reaping of the old child, and the start of the new child: runner is
\* never at startCommand right after the receive or right after Wait
C13_Original ==
    [][(received' # received \/ (runnerPc = "wait" /\ runnerPc' # "wait"))
         => runnerPc' # "start"]_vars

\* C14: EINTR takes the dispatch loop back to its select and changes
\* nothing else; with any other error the loop is never taken up again, and
\* the daemon ends with status 1; the daemon never ends for EINTR.
C14_WatcherErrorPolicy ==
    /\ [][(mainPc = "error" /\ werr = "EINTR" /\ mainPc' # mainPc)
            => (mainPc' = "loop"
                /\ UNCHANGED <<queue, accepted, watched, received, runnerPc,
                               currentProcess, procs, exitReason, exitCode>>)]_vars
    /\ [][(mainPc = "error" /\ werr # "EINTR") => mainPc' = "error"]_vars
    /\ [][(mainPc = "error" /\ werr # "EINTR" /\ accepted' = accepted
             /\ runnerVars' = runnerVars /\ vars' # vars)
            => exitReason' \in {"watcher", "interrupt"}]_vars
    /\ [](exitReason = "watcher"
            => (mainPc = "error" /\ werr \in {"syscall", "other"} /\ exitCode = 1))

\* C14 witness: EINTR has been received and skipped while a restart was
\* under way, and the loop runs on
C14_Witness ==
    /\ Running
    /\ mainPc = "loop"
    /\ werr = "EINTR"
    /\ runnerPc = "wait"
    /\ queue >= 1

\* C15: an event with an empty Name goes from the receive straight back to
\* the loop: it is never sent, it never ends the daemon for a malformed
\* glob, and its dispatch changes nothing but the position of main.
C15_EmptyPathIgnored ==
    /\ [](mainPc = "send" => ev # <<>>)
    /\ [][(mainPc = "match" /\ ev = <<>>)
            => (mainPc' \in {"match", "loop"} /\ accepted' = accepted
                /\ queue' <= queue /\ exitReason' # "badpattern")]_vars
    /\ [][(mainPc = "match" /\ ev = <<>> /\ mainPc' = "loop")
            => UNCHANGED <<queue, accepted, received, runnerPc,
                           currentProcess, procs, exitReason>>]_vars

\* C15 witness: an event with an empty Name has been dispatched under a
\* malformed included-file glob, and the daemon runs on
C15_Witness ==
    /\ Running
    /\ mainPc = "loop"
    /\ ev = <<>>
    /\ MalformedGlobs(cfg.includedFiles)
    /\ Len(procs) = 1

AllDirs == {Root, DirS, DirT, DirTD}

\* the watch set of a startup without errors: the directory itself with
\* -recursive=false, else every directory of the tree that is neither
\* excluded nor below an excluded one
CompleteWatchSet ==
    IF cfg.recursive
    THEN {d \in AllDirs : \A a \in AncestorsOrSelf(d) : ~ExcludedDir(a)}
    ELSE {cfg.dir}

\* C16: a failure to enumerate or to watch a directory ends the daemon
\* with no signal sent and runner not launched; runner is launched, and a
\* child started, only with the complete watch set.
C16_NoPartialWatchSet ==
    /\ (exitReason \in {"newwatcher", "walk", "watch"})
          => (runnerPc = "off" /\ queue = 0 /\ procs = <<>> /\ exitCode = 1)
    /\ (runnerPc # "off" \/ queue > 0 \/ procs # <<>>)
          => watched = CompleteWatchSet

\* C16 witness: the walk failed after the first directory was watched
C16_Witness ==
    /\ exitReason = "walk"
    /\ watched # {}
    /\ watched # CompleteWatchSet

\* the signals sent so far: the initial one, once runner is launched, and
\* one for each accepted event
Sent == (IF runnerPc = "off" THEN 0 ELSE 1) + accepted

Killed == {i \in 1..Len(procs) : procs[i].killed}

Reaped == {i \in 1..Len(procs) : procs[i].reaped}

\* C17: every signal sent is either pending or received, and the channel
\* never holds more than ChanCap; every signal received has one spawn,
\* done or about to be done, and every one but the first, which finds no
\* child handle, has one Kill and one Wait before it.
C17_SignalConservation ==
    /\ received + queue = Sent
    /\ queue \in 0..ChanCap
    /\ received = Len(procs) + InFlight
    /\ Cardinality(Killed) =
          (IF received <= 1 THEN 0
           ELSE received - 1 - (IF runnerPc = "kill" THEN 1 ELSE 0))
    /\ Cardinality(Reaped) =
          (IF received <= 1 THEN 0
           ELSE received - 1 - (IF runnerPc \in {"kill", "wait"} THEN 1 ELSE 0))
    /\ Reaped \subseteq Killed

\* C17 witness: the channel is full while the third child runs, the
\* initial signal and two more having been received
C17_Witness ==
    /\ Running
    /\ queue = ChanCap
    /\ received = 3
    /\ accepted = ChanCap + 2
    /\ Len(procs) = 3
    /\ procs[3].alive

MainBlocked == Running /\ mainPc = "send" /\ ~ENABLED MainSend

RunnerBlocked == Running /\ runnerPc # "off" /\ ~ENABLED RunnerStep

\* C18: main cannot go on only at the send with the channel full, runner
\* only at the receive with the channel empty, never both at a time; and a
\* main that waits at a full channel gets its signal sent, unless the
\* daemon ends first.
C18_NoQueueDeadlock ==
    /\ [](MainBlocked => queue = ChanCap)
    /\ []((Running /\ mainPc \in {"match", "error"}) => ENABLED MainStep)
    /\ [](RunnerBlocked => (runnerPc = "recv" /\ queue = 0))
    /\ [](~(MainBlocked /\ RunnerBlocked))
    /\ (MainBlocked /\ queue = ChanCap) ~> (mainPc # "send" \/ ~Running)

\* C18 witness: main waits to send at a full channel while runner is at
\* the Wait for the child it killed
C18_Witness ==
    /\ MainBlocked
    /\ queue = ChanCap
    /\ runnerPc = "wait"
    /\ Len(procs) = 1

\* the daemon ended in the dispatch loop: on a watcher error, or on a
\* malformed glob met while matching an event
DispatchFatal(reason, pc) ==
    \/ reason = "watcher"
    \/ reason = "badpattern" /\ pc = "match"

\* C19 as stated: after a fatal exit from the dispatch loop no child is live
C19_Original == DispatchFatal(exitReason, mainPc) => Live = {}

\* C19 as amended: a fatal exit from the dispatch loop ends the daemon
\* with status 1 and leaves runner and every child as they were, at
\* whatever step runner is; and once the daemon has ended no child is
\* killed or reaped any more: a child live then stays live until it exits
\* by itself.
C19_FatalExitLeavesChild ==
    /\ [][(Running /\ DispatchFatal(exitReason', mainPc'))
            => (runnerVars' = runnerVars /\ queue' = queue /\ exitCode' = 1)]_vars
    /\ [][(~Running)
            => (/\ Len(procs') = Len(procs)
                /\ \A i \in 1..Len(procs) :
                     /\ procs'[i].killed = procs[i].killed
                     /\ procs'[i].reaped = procs[i].reaped
                /\ <<received, runnerPc, currentProcess, exitReason>>'
                     = <<received, runnerPc, currentProcess, exitReason>>)]_vars

\* C19 witness: the daemon has ended on a watcher error while runner was
\* about to kill the child, which is live and is neither killed nor reaped
C19_Witness ==
    /\ exitReason = "watcher"
    /\ runnerPc = "kill"
    /\ currentProcess = 1
    /\ procs[1].alive
    /\ ~procs[1].killed

====
